---- MODULE Spec2Model ----
(***************************************************************************)
(* A model of decay-gen.py, the generator of PyNE's static decay function, *)
(* and of the C++ dispatch function it renders.                            *)
(*                                                                         *)
(* Numbers.  The program computes in IEEE doubles.  The model computes in  *)
(* exact rationals extended with +inf, -inf and NaN, so a division by zero *)
(* or an undefined half-life propagates as in numpy, while rounding and    *)
(* the finite range of a double are not modelled.  Decay constants are     *)
(* kept in units of ln 2 (decay_const = ln2 / half_life): every amplitude  *)
(* k_a returns is a ratio in which that factor cancels, and the one place  *)
(* where it does not, the stability threshold, accounts for it.            *)
(***************************************************************************)
EXTENDS Integers, Sequences, FiniteSets

VARIABLES
    half_life_tab,      \* provider: nuclide -> half-life (seconds, inf, NaN)
    data_children,      \* provider: pyne.data.decay_children
    data_br,            \* provider: pyne.data.branch_ratio
    fpy,                \* provider: the (parent, child) pairs with fpyield # 0
    br_special_cases,   \* the override table closed over by _branch_ratio
    dc_special_cases,   \* the override table closed over by _decay_children
    nucs,               \* the tracked nuclides, in slot order
    pc,                 \* where the generator (then the artifact) stands
    gi,                 \* genelemfuncs: index of the next nuclide of nucs
    chains,             \* genchains: the list of chains being grown
    stack,              \* genchains: the frames of the recursion
    ctx_cases,          \* gencases: the element labels of the outer switch
    cases,              \* genelemfuncs: element -> lines of its inner switch
    comp,               \* decay(): the input composition
    outcomp             \* decay(): the returned composition

vars == <<half_life_tab, data_children, data_br, fpy, br_special_cases,
          dc_special_cases, nucs, pc, gi, chains, stack, ctx_cases, cases,
          comp, outcomp>>

(***************************************************************************)
(* The nuclides of the model: Sb-127, Te-127, its isomer Te-127m and the   *)
(* stable I-127, by their PyNE ids (ZZZAAASSSS).                           *)
(***************************************************************************)
NucId(z, a, m) == z * 10000000 + a * 10000 + m

Sb127 == NucId(51, 127, 0)
Te127 == NucId(52, 127, 0)
Te127m == NucId(52, 127, 1)
I127 == NucId(53, 127, 0)

Nuclides == {Sb127, Te127, Te127m, I127}

\* Bounds of the model.
MaxDepth == 5          \* frames genchains may stack before RecursionError
MaxAbund == 2          \* input abundances are 1..MaxAbund
LongLife == 100000000  \* the half-life (s) of a long-lived nuclide

(***************************************************************************)
(* Extended rational arithmetic.                                           *)
(***************************************************************************)
RECURSIVE GCD(_, _)
GCD(a, b) == IF b = 0 THEN a ELSE GCD(b, a % b)

Abs(i) == IF i < 0 THEN -i ELSE i

Fin(n, d) ==
    LET s == IF d < 0 THEN -1 ELSE 1
        g == GCD(Abs(n), Abs(d))
    IN  [k |-> "fin", n |-> (s * n) \div g, d |-> (s * d) \div g]

NaN == [k |-> "nan", n |-> 0, d |-> 1]
PInf == [k |-> "pinf", n |-> 0, d |-> 1]
NInf == [k |-> "ninf", n |-> 0, d |-> 1]
Zero == Fin(0, 1)
One == Fin(1, 1)
MinusOne == Fin(-1, 1)

IsNaN(x) == x.k = "nan"
IsInf(x) == x.k \in {"pinf", "ninf"}
IsFin(x) == x.k = "fin"

\* -1, 0 or 1; NaN has no sign and is never asked for one.
Sign(x) ==
    CASE x.k = "pinf" -> 1
      [] x.k = "ninf" -> -1
      [] OTHER -> IF x.n > 0 THEN 1 ELSE IF x.n < 0 THEN -1 ELSE 0

InfOf(s) == IF s > 0 THEN PInf ELSE NInf

\* x == y of two doubles: NaN equals nothing, -0.0 equals 0.0.
Eq(x, y) == ~IsNaN(x) /\ ~IsNaN(y) /\ x = y

Neg(x) ==
    CASE x.k = "nan" -> NaN
      [] x.k = "pinf" -> NInf
      [] x.k = "ninf" -> PInf
      [] OTHER -> Fin(-x.n, x.d)

Mul(x, y) ==
    IF IsNaN(x) \/ IsNaN(y) THEN NaN
    ELSE IF IsInf(x) \/ IsInf(y)
         THEN IF Sign(x) = 0 \/ Sign(y) = 0 THEN NaN
              ELSE InfOf(Sign(x) * Sign(y))
    ELSE LET g1 == GCD(Abs(x.n), y.d)
             g2 == GCD(Abs(y.n), x.d)
         IN  Fin((x.n \div g1) * (y.n \div g2), (x.d \div g2) * (y.d \div g1))

\* x / y.  Every zero this program divides by is +0.0 (a difference of two
\* equal decay constants, or the decay constant of a stable nuclide).
Div(x, y) ==
    IF IsNaN(x) \/ IsNaN(y) THEN NaN
    ELSE IF IsInf(y) THEN (IF IsInf(x) THEN NaN ELSE Zero)
    ELSE IF Sign(y) = 0 THEN (IF Sign(x) = 0 THEN NaN ELSE InfOf(Sign(x)))
    ELSE IF IsInf(x) THEN InfOf(Sign(x) * Sign(y))
    ELSE Mul(x, Fin(y.d, y.n))

Add(x, y) ==
    IF IsNaN(x) \/ IsNaN(y) THEN NaN
    ELSE IF IsInf(x) /\ IsInf(y) THEN (IF x = y THEN x ELSE NaN)
    ELSE IF IsInf(x) THEN x
    ELSE IF IsInf(y) THEN y
    ELSE LET g == GCD(x.d, y.d)
         IN  Fin(x.n * (y.d \div g) + y.n * (x.d \div g), (x.d \div g) * y.d)

Sub(x, y) == Add(x, Neg(y))

\* The class of a value, and of a product from the classes of its factors:
\* whether a product is infinite is decided without computing its magnitude.
Cls(x) ==
    IF IsFin(x)
    THEN (IF x.n > 0 THEN "pos" ELSE IF x.n < 0 THEN "neg" ELSE "zero")
    ELSE x.k

ClsSign(c) == IF c \in {"pos", "pinf"} THEN 1 ELSE -1

ClsMul(c1, c2) ==
    IF c1 = "nan" \/ c2 = "nan" THEN "nan"
    ELSE IF c1 \in {"pinf", "ninf"} \/ c2 \in {"pinf", "ninf"}
         THEN IF c1 = "zero" \/ c2 = "zero" THEN "nan"
              ELSE IF ClsSign(c1) * ClsSign(c2) > 0 THEN "pinf" ELSE "ninf"
    ELSE IF c1 = "zero" \/ c2 = "zero" THEN "zero"
    ELSE IF ClsSign(c1) * ClsSign(c2) > 0 THEN "pos" ELSE "neg"

RECURSIVE SumSeq(_)
SumSeq(s) == IF s = <<>> THEN Zero ELSE Add(SumSeq(Tail(s)), Head(s))

RECURSIVE ProdSeq(_)
ProdSeq(s) == IF s = <<>> THEN One ELSE Mul(Head(s), ProdSeq(Tail(s)))

Last(s) == s[Len(s)]
Front(s) == SubSeq(s, 1, Len(s) - 1)

(***************************************************************************)
(* The nuclear-data provider and the data-correction layer.                *)
(***************************************************************************)
znum(n) == n \div 10000000

half_life(n) == half_life_tab[n]

\* ln2 / half_life, in units of ln 2: 0 for a stable nuclide (half-life
\* inf), NaN for an unmeasured one.
decay_const(n) == Div(One, half_life(n))

fpyield(p, c) == IF <<p, c>> \in fpy THEN Fin(1, 100) ELSE Zero

data_branch_ratio(x, y) ==
    IF <<x, y>> \in DOMAIN data_br THEN data_br[<<x, y>>] ELSE Zero

data_decay_children(x) ==
    IF x \in DOMAIN data_children THEN data_children[x] ELSE {}

\* The literal of _branch_ratio.special_cases, as (parent, child, ratio).
BranchRatioTable ==
    { <<NucId(45, 104, 0), NucId(46, 104, 0), Fin(9955, 10000)>>,
      <<NucId(45, 104, 0), NucId(44, 104, 0), Fin(45, 10000)>>,
      <<NucId(52, 127, 0), NucId(53, 127, 0), One>>,
      <<NucId(47, 110, 1), NucId(47, 110, 0), Sub(One, Fin(9867, 10000))>>,
      <<NucId(49, 119, 1), NucId(49, 119, 0), Sub(One, Fin(956, 1000))>>,
      <<NucId(51, 126, 1), NucId(51, 126, 0), Fin(14, 100)>>,
      <<NucId(32, 77, 1), NucId(32, 77, 0), Fin(19, 100)>>,
      <<NucId(36, 85, 1), NucId(36, 85, 0), Sub(One, Fin(788, 1000))>>,
      <<NucId(71, 177, 1), NucId(71, 177, 0), Fin(217, 1000)>>,
      <<NucId(46, 111, 1), NucId(46, 111, 0), Fin(73, 100)>>,
      <<NucId(84, 211, 1), NucId(84, 211, 0), Fin(2, 10000)>>,
      <<NucId(52, 129, 1), NucId(53, 129, 0), Fin(63, 100)>> }

BranchRatioSpecialCases ==
    [p \in {<<e[1], e[2]>> : e \in BranchRatioTable} |->
        (CHOOSE e \in BranchRatioTable : <<e[1], e[2]>> = p)[3]]

\* The literal of _decay_children.special_cases, as (parent, children).
DecayChildrenTable ==
    { <<NucId(45, 104, 0), {NucId(44, 104, 0), NucId(46, 104, 0)}>>,
      <<NucId(52, 127, 0), {NucId(53, 127, 0)}>> }

DecayChildrenSpecialCases ==
    [p \in {e[1] : e \in DecayChildrenTable} |->
        (CHOOSE e \in DecayChildrenTable : e[1] = p)[2]]

\* A wrapper that asks the provider first and the table only for a pair the
\* provider does not know: the opposite precedence.
branch_ratio_provider_first(x, y) ==
    IF <<x, y>> \in DOMAIN data_br
    THEN data_br[<<x, y>>]
    ELSE IF <<x, y>> \in DOMAIN br_special_cases
         THEN br_special_cases[<<x, y>>]
         ELSE Zero

\* br(x, y) of _branch_ratio: the name branch_ratio after line 45.
branch_ratio(x, y) ==
    IF <<x, y>> \in DOMAIN br_special_cases
    THEN br_special_cases[<<x, y>>]
    ELSE data_branch_ratio(x, y)

\* dc(x) of _decay_children: the name decay_children after line 58.
decay_children(x) ==
    IF x \in DOMAIN dc_special_cases
    THEN dc_special_cases[x]
    ELSE data_decay_children(x)

(***************************************************************************)
(* k_a: the Bateman coefficients of one chain.                             *)
(***************************************************************************)
\* 1e-16 < ln2 / hl iff hl < ln2 * 1e16 = 6931471805599453.09...; the
\* threshold is held as its two halves of eight decimal digits.
StableTolHi == 69314718
StableTolLo == 5599454
\* 1 / 1e-8, the relative half-life below which a term is dropped.
PruneTolInv == 100000000

\* dc < 1e-16, for dc in units of ln 2.
BelowStableTol(dc) ==
    CASE IsNaN(dc) -> FALSE
      [] dc.k = "pinf" -> FALSE
      [] dc.k = "ninf" -> TRUE
      [] OTHER ->
           \/ dc.n <= 0
           \/ LET q == dc.d \div dc.n
              IN  \/ q \div PruneTolInv > StableTolHi
                  \/ /\ q \div PruneTolInv = StableTolHi
                     /\ q % PruneTolInv >= StableTolLo

\* x > 1e-8
AbovePruneTol(x) ==
    CASE IsNaN(x) -> FALSE
      [] x.k = "pinf" -> TRUE
      [] x.k = "ninf" -> FALSE
      [] OTHER -> x.n > 0 /\ (x.d \div x.n) < PruneTolInv

\* The rates with the sign of the decay constants, a sign slip in line 189.
a_of_growing(chain) == [i \in 1..Len(chain) |-> Div(One, half_life(chain[i]))]

hl_of(chain) == [i \in 1..Len(chain) |-> half_life(chain[i])]
a_of(chain) == [i \in 1..Len(chain) |-> Div(MinusOne, half_life(chain[i]))]
dc_of(chain) == [i \in 1..Len(chain) |-> decay_const(chain[i])]

ends_stable(chain) == BelowStableTol(decay_const(Last(chain)))

\* The ratio matrix without the replaced last row of line 199: the terminal
\* row of a chain that ends stable is then all zero.
cij_plain(chain, i, j) ==
    IF i = j THEN One
    ELSE Div(decay_const(chain[i]),
             Sub(decay_const(chain[i]), decay_const(chain[j])))

\* cij after lines 197-201: the ratio matrix, its last row replaced when the
\* chain ends stable, its diagonal set to one.
cij(chain, i, j) ==
    LET dc == dc_of(chain)
    IN  IF i = j THEN One
        ELSE IF ends_stable(chain) /\ i = Len(chain)
             THEN Div(MinusOne, dc[j])
        ELSE Div(dc[i], Sub(dc[i], dc[j]))

\* x times the entries of s, multiplied in from the left.
RECURSIVE MulInto(_, _)
MulInto(x, s) == IF s = <<>> THEN x ELSE MulInto(Mul(x, Head(s)), Tail(s))

\* f * ci[j], where ci = cij.prod(axis=0) is the product down column j.  The
\* factor f that line 205 or 208 applies to ci[j] is multiplied in first:
\* the product is the same and its intermediate values stay small.
times_ci(f, chain, j) == MulInto(f, [i \in 1..Len(chain) |-> cij(chain, i, j)])

RECURSIVE ClsProd(_)
ClsProd(s) == IF s = <<>> THEN "pos" ELSE ClsMul(Head(s), ClsProd(Tail(s)))

ci_cls(chain, j) == ClsProd([i \in 1..Len(chain) |-> Cls(cij(chain, i, j))])

\* k without the assignment k[-1] = 1.0 of line 206.
k_raw_unforced(chain, j) ==
    IF ends_stable(chain)
    THEN times_ci(decay_const(chain[j]), chain, j)
    ELSE times_ci(Div(decay_const(chain[j]), decay_const(Last(chain))), chain, j)

\* k before the branch ratios (lines 204-208).
k_raw(chain, j) ==
    LET dc == dc_of(chain)
        n == Len(chain)
    IN  IF ends_stable(chain)
        THEN (IF j = n THEN One ELSE times_ci(dc[j], chain, j))
        ELSE times_ci(Div(dc[j], dc[n]), chain, j)

k_raw_cls(chain, j) ==
    LET dc == dc_of(chain)
        n == Len(chain)
    IN  IF ends_stable(chain)
        THEN (IF j = n THEN "pos" ELSE ClsMul(Cls(dc[j]), ci_cls(chain, j)))
        ELSE ClsMul(Cls(Div(dc[j], dc[n])), ci_cls(chain, j))

\* np.isinf(k).any()
k_isinf_any(chain) ==
    \E j \in 1..Len(chain) : k_raw_cls(chain, j) \in {"pinf", "ninf"}

gamma_of(chain) ==
    ProdSeq([i \in 1..(Len(chain) - 1) |-> branch_ratio(chain[i], chain[i + 1])])

\* The half-life filter without the floor of lines 228-229.
prune_mask_no_floor(chain) ==
    IF ends_stable(chain)
    THEN [i \in 1..Len(chain) |->
            IF i = Len(chain) THEN TRUE
            ELSE AbovePruneTol(Div(half_life(chain[i]),
                                   SumSeq(Front(hl_of(chain)))))]
    ELSE [i \in 1..Len(chain) |->
            AbovePruneTol(Div(half_life(chain[i]), SumSeq(hl_of(chain))))]

\* The half-life filter of lines 225-231.
prune_mask(chain) ==
    LET hl == hl_of(chain)
        n == Len(chain)
        m0 == IF ends_stable(chain)
              THEN [i \in 1..n |->
                      IF i = n THEN TRUE
                      ELSE AbovePruneTol(Div(hl[i], SumSeq(Front(hl))))]
              ELSE [i \in 1..n |-> AbovePruneTol(Div(hl[i], SumSeq(hl)))]
    IN  IF Cardinality({i \in 1..n : m0[i]}) < 2
        THEN [i \in 1..n |-> TRUE]
        ELSE m0

RECURSIVE Masked(_, _, _)
Masked(s, mask, i) ==
    IF i > Len(s) THEN <<>>
    ELSE (IF mask[i] THEN <<s[i]>> ELSE <<>>) \o Masked(s, mask, i + 1)

NoneNone == [none |-> TRUE, k |-> <<>>, a |-> <<>>]

k_a(chain) ==
    IF \E i \in 1..Len(chain) : IsNaN(decay_const(chain[i])) THEN NoneNone
    ELSE IF k_isinf_any(chain) THEN NoneNone
    ELSE IF Eq(gamma_of(chain), Zero) THEN NoneNone
    ELSE LET k == [j \in 1..Len(chain) |->
                     Mul(k_raw(chain, j), gamma_of(chain))]
             mask == prune_mask(chain)
         IN  [none |-> FALSE,
              k |-> Masked(k, mask, 1),
              a |-> Masked(a_of(chain), mask, 1)]

(***************************************************************************)
(* The expression synthesizer.  A term is kept as the template and the     *)
(* arguments handed to str.format; the text of the artifact prints each    *)
(* argument with "{:e}".                                                   *)
(***************************************************************************)
EXP_EXPR(a) == [tmpl |-> "EXP_EXPR", a |-> a]
KEXP_EXPR(k, a) == [tmpl |-> "KEXP_EXPR", k |-> k, a |-> a]
CHAIN_EXPR(terms) == [none |-> FALSE, tmpl |-> "CHAIN_EXPR", terms |-> terms]
CHAIN_STMT(slot, expr) ==
    [line |-> "CHAIN_STMT", slot |-> slot, op |-> "+=", expr |-> expr]
BREAK == [line |-> "BREAK"]
CaseLine(label) == [line |-> "case", label |-> label]
ItSecond == [none |-> FALSE, tmpl |-> "it->second"]
NoneExpr == [none |-> TRUE]

kexpexpr(k, a) == IF Eq(k, One) THEN EXP_EXPR(a) ELSE KEXP_EXPR(k, a)

chainexpr(chain) ==
    IF Len(chain) = 1
    THEN CHAIN_EXPR(<<EXP_EXPR(Div(MinusOne, half_life(Last(chain))))>>)
    ELSE LET ka == k_a(chain)
         IN  IF ka.none THEN NoneExpr
             ELSE CHAIN_EXPR([i \in 1..Len(ka.k) |->
                     IF Eq(ka.k[i], One) /\ Eq(ka.a[i], Zero)
                     THEN [tmpl |-> "1.0"]
                     ELSE kexpexpr(ka.k[i], ka.a[i])])

(***************************************************************************)
(* The chain enumerator and the dispatch assembler.                        *)
(***************************************************************************)
\* idx = dict(zip(nucs, range(len(nucs))))
InIdx(n) == \E i \in 1..Len(nucs) : nucs[i] = n
idx(n) == (CHOOSE i \in 1..Len(nucs) : nucs[i] = n) - 1

\* The children without the fission-yield filter of line 179.
chain_children_unfiltered(chain) == decay_children(Last(chain))

\* The children genchains iterates over (lines 178-179).
chain_children(chain) ==
    {c \in decay_children(Last(chain)) : Eq(Zero, fpyield(Last(chain), c))}

\* A loop that keeps, for each slot, only the statement of the last chain
\* that ends in it, an assignment in place of CHAIN_STMT's +=.
RECURSIVE chain_stmts_last_wins(_)
chain_stmts_last_wins(chs) ==
    IF chs = <<>> THEN <<>>
    ELSE LET c == Head(chs)
             rest == Tail(chs)
         IN  (IF ~InIdx(Last(c)) THEN <<>>
              ELSE IF chainexpr(c).none THEN <<>>
              ELSE IF \E i \in 1..Len(rest) : Last(rest[i]) = Last(c) THEN <<>>
              ELSE <<CHAIN_STMT(idx(Last(c)), chainexpr(c))>>)
             \o chain_stmts_last_wins(rest)

\* The statements the loop of lines 273-279 appends for the chains chs.
RECURSIVE chain_stmts(_)
chain_stmts(chs) ==
    IF chs = <<>> THEN <<>>
    ELSE LET c == Head(chs)
         IN  (IF ~InIdx(Last(c)) THEN <<>>
              ELSE IF chainexpr(c).none THEN <<>>
              ELSE <<CHAIN_STMT(idx(Last(c)), chainexpr(c))>>)
             \o chain_stmts(Tail(chs))

RECURSIVE SortedSeq(_)
SortedSeq(S) ==
    IF S = {} THEN <<>>
    ELSE LET m == CHOOSE x \in S : \A y \in S : x <= y
         IN  <<m>> \o SortedSeq(S \ {m})

elems(ns) == SortedSeq({znum(ns[i]) : i \in 1..Len(ns)})

\* One outer case per element: the label and the element function called.
gencases(ns) ==
    [i \in 1..Len(elems(ns)) |->
        [line |-> "case", label |-> elems(ns)[i], call |-> elems(ns)[i]]]

\* genfiles, line 169.
GenCases ==
    /\ pc = "genfiles"
    /\ ctx_cases' = gencases(nucs)
    /\ cases' = [z \in {znum(nucs[i]) : i \in 1..Len(nucs)} |-> <<>>]
    /\ gi' = 1
    /\ pc' = "genelemfuncs"
    /\ UNCHANGED <<half_life_tab, data_children, data_br, fpy,
                   br_special_cases, dc_special_cases, nucs, chains, stack,
                   comp, outcomp>>

\* gencase of a stable nuclide (lines 265-269, 280), added to its element.
GenCaseStable ==
    /\ pc = "genelemfuncs"
    /\ gi <= Len(nucs)
    /\ Eq(decay_const(nucs[gi]), Zero)
    /\ cases' = [cases EXCEPT ![znum(nucs[gi])] =
                    @ \o <<CaseLine(nucs[gi]),
                           CHAIN_STMT(idx(nucs[gi]), ItSecond),
                           BREAK>>]
    /\ gi' = gi + 1
    /\ UNCHANGED <<half_life_tab, data_children, data_br, fpy,
                   br_special_cases, dc_special_cases, nucs, pc, chains,
                   stack, ctx_cases, comp, outcomp>>

\* gencase of any other nuclide: the call genchains([(nuc,)]) of line 271.
GenCaseBegin ==
    /\ pc = "genelemfuncs"
    /\ gi <= Len(nucs)
    /\ ~Eq(decay_const(nucs[gi]), Zero)
    /\ chains' = << <<nucs[gi]>> >>
    /\ stack' = << [chain |-> <<nucs[gi]>>,
                    todo |-> chain_children(<<nucs[gi]>>)] >>
    /\ pc' = "genchains"
    /\ UNCHANGED <<half_life_tab, data_children, data_br, fpy,
                   br_special_cases, dc_special_cases, nucs, gi, ctx_cases,
                   cases, comp, outcomp>>

\* genchains, lines 181-183: one turn of the loop, the children of the set
\* taken in any order, and the recursive call on the grown list.
GenChainsCall ==
    /\ pc = "genchains"
    /\ stack # <<>>
    /\ Len(stack) < MaxDepth
    /\ \E child \in Last(stack).todo :
          LET top == Last(stack)
              new == Append(top.chain, child)
          IN  /\ chains' = Append(chains, new)
              /\ stack' = Append(
                     [stack EXCEPT ![Len(stack)].todo = @ \ {child}],
                     [chain |-> new, todo |-> chain_children(new)])
    /\ UNCHANGED <<half_life_tab, data_children, data_br, fpy,
                   br_special_cases, dc_special_cases, nucs, pc, gi,
                   ctx_cases, cases, comp, outcomp>>

\* The same turn at the interpreter's recursion limit: the chain is appended
\* and the call raises RecursionError, which nothing catches.
GenChainsOverflow ==
    /\ pc = "genchains"
    /\ stack # <<>>
    /\ Len(stack) >= MaxDepth
    /\ \E child \in Last(stack).todo :
          chains' = Append(chains, Append(Last(stack).chain, child))
    /\ pc' = "RecursionError"
    /\ UNCHANGED <<half_life_tab, data_children, data_br, fpy,
                   br_special_cases, dc_special_cases, nucs, gi, stack,
                   ctx_cases, cases, comp, outcomp>>

\* genchains, line 184: the loop is over, the frame returns.
GenChainsReturn ==
    /\ pc = "genchains"
    /\ stack # <<>>
    /\ Last(stack).todo = {}
    /\ stack' = Front(stack)
    /\ pc' = IF Len(stack) = 1 THEN "gencase" ELSE "genchains"
    /\ UNCHANGED <<half_life_tab, data_children, data_br, fpy,
                   br_special_cases, dc_special_cases, nucs, gi, chains,
                   ctx_cases, cases, comp, outcomp>>

\* gencase, lines 273-281, and line 302: the case is added to its element.
GenCaseEmit ==
    /\ pc = "gencase"
    /\ cases' = [cases EXCEPT ![znum(nucs[gi])] =
                    @ \o <<CaseLine(nucs[gi])>> \o chain_stmts(chains)
                      \o <<BREAK>>]
    /\ gi' = gi + 1
    /\ pc' = "genelemfuncs"
    /\ UNCHANGED <<half_life_tab, data_children, data_br, fpy,
                   br_special_cases, dc_special_cases, nucs, chains, stack,
                   ctx_cases, comp, outcomp>>

\* genelemfuncs, lines 303-307, and genfiles, lines 171-173: the element
\* functions and the source are rendered from nucs, ctx_cases and cases.
Render ==
    /\ pc = "genelemfuncs"
    /\ gi > Len(nucs)
    /\ pc' = "rendered"
    /\ UNCHANGED <<half_life_tab, data_children, data_br, fpy,
                   br_special_cases, dc_special_cases, nucs, gi, chains,
                   stack, ctx_cases, cases, comp, outcomp>>

(***************************************************************************)
(* The rendered artifact: decay(comp, t) of SOURCE with the element        *)
(* functions of ELEM_FUNC.  A value of out[] or outcomp is kept as the sum *)
(* it stands for: pass, the abundances added unchanged, and acc, the       *)
(* (abundance, expression) products added by chain statements, whose value *)
(* depends on t.                                                           *)
(***************************************************************************)
Plain(x) == [pass |-> x, acc |-> <<>>]

\* The statements run from line p of an inner switch up to its break.
RECURSIVE case_body(_, _)
case_body(lines, p) ==
    IF p > Len(lines) THEN <<>>
    ELSE IF lines[p] = BREAK THEN <<>>
    ELSE IF lines[p].line = "case" THEN case_body(lines, p + 1)
    ELSE <<lines[p]>> \o case_body(lines, p + 1)

\* out after the statements body have run for the entry (key, x) of comp.
RECURSIVE run_stmts(_, _, _)
run_stmts(out, body, x) ==
    IF body = <<>> THEN out
    ELSE LET st == Head(body)
             i == st.slot
             o == IF st.expr = ItSecond
                  THEN [out EXCEPT ![i].pass = @ + x]
                  ELSE [out EXCEPT ![i].acc =
                           Append(@, [x |-> x, expr |-> st.expr])]
         IN  run_stmts(o, Tail(body), x)

\* The same turn with element functions that have no default label: an
\* untracked nuclide of an element that has a unit is then lost.
decay_entry_no_default(st, c, key) ==
    IF \E i \in 1..Len(ctx_cases) : ctx_cases[i].label = znum(key)
    THEN LET lines == cases[znum(key)]
         IN  IF \E p \in 1..Len(lines) : lines[p] = CaseLine(key)
             THEN LET p == CHOOSE q \in 1..Len(lines) : lines[q] = CaseLine(key)
                  IN  [st EXCEPT !.out =
                          run_stmts(@, case_body(lines, p + 1), c[key])]
             ELSE st
    ELSE [st EXCEPT !.outcomp = @ \cup {<<key, Plain(c[key])>>}]

\* One turn of the loop of lines 119-126 on the state st = (out, outcomp).
decay_entry(st, c, key) ==
    IF \E i \in 1..Len(ctx_cases) : ctx_cases[i].label = znum(key)
    THEN \* decay_<elem>(t, it, outcomp, out)
         LET lines == cases[znum(key)]
         IN  IF \E p \in 1..Len(lines) : lines[p] = CaseLine(key)
             THEN LET p == CHOOSE q \in 1..Len(lines) : lines[q] = CaseLine(key)
                  IN  [st EXCEPT !.out =
                          run_stmts(@, case_body(lines, p + 1), c[key])]
             ELSE [st EXCEPT !.outcomp = @ \cup {<<key, Plain(c[key])>>}]
    ELSE [st EXCEPT !.outcomp = @ \cup {<<key, Plain(c[key])>>}]

RECURSIVE decay_loop(_, _, _)
decay_loop(st, c, keys) ==
    IF keys = <<>> THEN st
    ELSE decay_loop(decay_entry(st, c, Head(keys)), c, Tail(keys))

\* out[i] > 0.0 at the time t of the call: decided by the abundances when
\* nothing in the sum depends on t, else as the set pos says.
out_positive(o, i, pos) == IF o.acc = <<>> THEN o.pass > 0 ELSE i \in pos

\* decay(comp, t): the pairs (key, value) of the returned map.
decay(c, pos) ==
    LET st0 == [out |-> [i \in 0..(Len(nucs) - 1) |-> Plain(0)], outcomp |-> {}]
        st == decay_loop(st0, c, SortedSeq(DOMAIN c))
        hit == {i \in 0..(Len(nucs) - 1) : out_positive(st.out[i], i, pos)}
    IN  {e \in st.outcomp : \A i \in hit : nucs[i + 1] # e[1]}
        \cup {<<nucs[i + 1], st.out[i]>> : i \in hit}

Comps == UNION {[S -> 1..MaxAbund] : S \in SUBSET Nuclides}

\* A call of the artifact on any composition, at any time t.
Decay ==
    /\ pc = "rendered"
    /\ \E c \in Comps : \E pos \in SUBSET (0..(Len(nucs) - 1)) :
          /\ \A i \in pos :
                decay_loop([out |-> [j \in 0..(Len(nucs) - 1) |-> Plain(0)],
                            outcomp |-> {}], c, SortedSeq(DOMAIN c)).out[i].acc
                # <<>>
          /\ comp' = c
          /\ outcomp' = decay(c, pos)
    /\ pc' = "returned"
    /\ UNCHANGED <<half_life_tab, data_children, data_br, fpy,
                   br_special_cases, dc_special_cases, nucs, gi, chains,
                   stack, ctx_cases, cases>>

(***************************************************************************)
(* The data the provider may hold, and the runs.                           *)
(***************************************************************************)
Secs(v) == Fin(v, 1)

HLTable(s, m, t) ==
    [n \in Nuclides |->
        IF n = Sb127 THEN s ELSE IF n = Te127m THEN m
        ELSE IF n = Te127 THEN t ELSE PInf]

\* Half-lives of seconds, with unmeasured ones, and half-lives eight orders
\* of magnitude apart; I-127 is stable.
HLTables ==
    {HLTable(s, m, t) : s \in {Secs(1), Secs(2), NaN},
                        m \in {Secs(1), Secs(3), NaN},
                        t \in {Secs(1), Secs(3)}}
    \cup {HLTable(s, m, t) : s \in {Secs(1), Secs(LongLife)},
                             m \in {Secs(1), Secs(LongLife)},
                             t \in {Secs(1), Secs(LongLife)}}

ChildrenTable(s, m, t) ==
    [n \in Nuclides |->
        IF n = Sb127 THEN s ELSE IF n = Te127m THEN m
        ELSE IF n = Te127 THEN t ELSE {}]

\* A stable nuclide has no decay children; the relation may hold a cycle.
\* What the provider says of Te-127 is shadowed by the override table.
ChildrenTables ==
    {ChildrenTable(s, m, {I127}) :
        s \in {{Te127m}, {Te127m, Te127}},
        m \in {{Te127}, {Te127, I127}, {I127}, {Sb127, Te127}}}
    \cup {ChildrenTable({Te127m, Te127}, m, {Sb127}) :
            m \in {{Te127, I127}, {Sb127, Te127}}}

FpyTables == {{}, {<<Te127m, Sb127>>, <<Sb127, Te127>>}}

BRTables ==
    { [e \in Nuclides \X Nuclides |-> Fin(1, 2)],
      [e \in Nuclides \X Nuclides |->
          IF e = <<Te127m, Te127>> THEN Zero
          ELSE IF e[1] = Sb127 THEN Fin(1, 2) ELSE One] }

NucLists ==
    { <<Sb127, Te127, Te127m, I127>>, <<Te127, I127>>, <<I127, Sb127>> }

InitWith(HL, CH, FP, BR, NL) ==
    /\ half_life_tab \in HL
    /\ data_children \in CH
    /\ fpy \in FP
    /\ data_br \in BR
    /\ br_special_cases = BranchRatioSpecialCases
    /\ dc_special_cases = DecayChildrenSpecialCases
    /\ nucs \in NL
    /\ pc = "genfiles"
    /\ gi = 0
    /\ chains = <<>>
    /\ stack = <<>>
    /\ ctx_cases = <<>>
    /\ cases = <<>>
    /\ comp = <<>>
    /\ outcomp = {}

Init == InitWith(HLTables, ChildrenTables, FpyTables, BRTables, NucLists)

\* The generator: genfiles(nucs).
Next ==
    \/ GenCases
    \/ GenCaseStable
    \/ GenCaseBegin
    \/ GenChainsCall
    \/ GenChainsOverflow
    \/ GenChainsReturn
    \/ GenCaseEmit
    \/ Render

Spec == Init /\ [][Next]_vars

\* The generator on a few data sets, then the artifact it rendered.
InitDecay ==
    InitWith({HLTable(Secs(2), Secs(3), Secs(1)),
              HLTable(NaN, Secs(LongLife), Secs(1))},
             {ChildrenTable({Te127m, Te127}, {Te127, I127}, {I127}),
              ChildrenTable({Te127m}, {Sb127, Te127}, {Sb127})},
             FpyTables, {[e \in Nuclides \X Nuclides |-> Fin(1, 2)]},
             NucLists)

NextDecay == Next \/ Decay

SpecDecay == InitDecay /\ [][NextDecay]_vars

(***************************************************************************)
(* Notions the properties are stated with.                                 *)
(***************************************************************************)
\* The filtered decay graph.
Edge(p, c) == c \in decay_children(p) /\ Eq(fpyield(p, c), Zero)

\* The walks of exactly n nuclides that start at seed.
RECURSIVE WalksOfLen(_, _)
WalksOfLen(seed, n) ==
    IF n = 1 THEN {<<seed>>}
    ELSE UNION {{Append(w, c) : c \in {d \in Nuclides : Edge(Last(w), d)}} :
                   w \in WalksOfLen(seed, n - 1)}

\* No walk of the filtered graph comes back to a nuclide.
Acyclic ==
    \A seed \in Nuclides : WalksOfLen(seed, Cardinality(Nuclides) + 1) = {}

\* The paths of the filtered graph that start at seed (when it is acyclic).
PathsFrom(seed) ==
    UNION {WalksOfLen(seed, n) : n \in 1..Cardinality(Nuclides)}

Range(s) == {s[i] : i \in 1..Len(s)}

NoRepeat(chain) ==
    \A i, j \in 1..Len(chain) : i # j => chain[i] # chain[j]

\* The nuclides whose case gencase has finished.
Done == IF pc = "genfiles" THEN {} ELSE {nucs[i] : i \in 1..(gi - 1)}

\* The nuclide whose case gencase has just returned, if any.
JustDone == IF pc = "genelemfuncs" /\ gi > 1 THEN {nucs[gi - 1]} ELSE {}

\* The statements of the finished case of nuclide n.
Body(n) ==
    LET lines == cases[znum(n)]
        p == CHOOSE q \in 1..Len(lines) : lines[q] = CaseLine(n)
    IN  case_body(lines, p + 1)

Count(s, x) == Cardinality({i \in 1..Len(s) : s[i] = x})

\* The statement gencase emits for a chain whose expression is solvable.
StmtOf(chain) == CHAIN_STMT(idx(Last(chain)), chainexpr(chain))

Emitted(chain) == InIdx(Last(chain)) /\ ~chainexpr(chain).none

\* The value of a statement's expression at t = 0 for a unit abundance,
\* every exponential being 1: the sum of its amplitudes.
TermAmp(term) == IF term.tmpl = "KEXP_EXPR" THEN term.k ELSE One

AmpSum(stmt) ==
    IF stmt.expr = ItSecond THEN One
    ELSE SumSeq([i \in 1..Len(stmt.expr.terms) |-> TermAmp(stmt.expr.terms[i])])

\* The sum over all slots of the outputs of n's case at t = 0, for input x.
OutputAtZero(n, x) ==
    Mul(Fin(x, 1), SumSeq([i \in 1..Len(Body(n)) |-> AmpSum(Body(n)[i])]))

\* The indices the relative half-life threshold alone would keep.
ThresholdKeeps(chain) ==
    LET n == Len(chain)
        stable == Eq(decay_const(Last(chain)), Zero)
        total == SumSeq([i \in 1..(IF stable THEN n - 1 ELSE n) |->
                            half_life(chain[i])])
    IN  {i \in 1..n : \/ stable /\ i = n
                      \/ AbovePruneTol(Div(half_life(chain[i]), total))}

(***************************************************************************)
(* The properties.                                                         *)
(***************************************************************************)
\* C1: for every two-nuclide chain (P, D) that gencase is given, with
\* decay_const(P) > 0, D stable and branch_ratio(P, D) = 1, k_a returns
\* exactly the two terms with amplitudes (-1, 1) and rates
\* (-1/half_life(P), 0), and chainexpr turns the chain (P,) into one
\* exponential without amplitude, of rate -1/half_life(P).
C1_TwoSpeciesChain ==
    pc = "gencase" =>
    \A c \in Range(chains) :
        ( /\ Len(c) = 2
          /\ IsFin(decay_const(c[1])) /\ Sign(decay_const(c[1])) > 0
          /\ Eq(decay_const(c[2]), Zero)
          /\ Eq(branch_ratio(c[1], c[2]), One) )
        => /\ k_a(c) =
                [none |-> FALSE,
                 k |-> <<MinusOne, One>>,
                 a |-> <<Div(MinusOne, half_life(c[1])), Zero>>]
           /\ chainexpr(<<c[1]>>) =
                CHAIN_EXPR(<<EXP_EXPR(Div(MinusOne, half_life(c[1])))>>)

\* C1 witness: gencase has emitted, for a parent P with a stable daughter D
\* and branch ratio 1, the statement exp(a t) into P's slot and the
\* statement -exp(a t) + 1 into D's slot.
C1_Witness ==
    \E P \in Done : \E D \in Nuclides :
        /\ IsFin(decay_const(P)) /\ Sign(decay_const(P)) > 0
        /\ Eq(decay_const(D), Zero) /\ InIdx(D)
        /\ Eq(branch_ratio(P, D), One)
        /\ LET a == Div(MinusOne, half_life(P))
           IN  /\ Count(Body(P), CHAIN_STMT(idx(P), CHAIN_EXPR(<<EXP_EXPR(a)>>))) = 1
               /\ Count(Body(P),
                        CHAIN_STMT(idx(D),
                            CHAIN_EXPR(<<KEXP_EXPR(MinusOne, a),
                                         [tmpl |-> "1.0"]>>))) = 1

\* C3: for every chain of two or more nuclides that gencase is given, that
\* ends in a stable nuclide and that k_a solves, the last returned term is
\* the terminal one: its rate is 0 and its amplitude is gamma, the product
\* of the branch ratios along the chain; every other returned term has a
\* strictly negative rate.
C3_StableLimit ==
    pc = "gencase" =>
    \A c \in Range(chains) :
        (Len(c) >= 2 /\ Eq(decay_const(Last(c)), Zero) /\ ~k_a(c).none)
        => LET ka == k_a(c)
               m == Len(ka.k)
           IN  /\ m >= 1 /\ Len(ka.a) = m
               /\ Eq(ka.a[m], Zero)
               /\ Eq(ka.k[m], gamma_of(c))
               /\ \A i \in 1..(m - 1) : IsFin(ka.a[i]) /\ Sign(ka.a[i]) < 0

\* C3 witness: gencase is about to emit a chain of three or more nuclides
\* that ends stable, whose gamma is not 1 and which lost a term to pruning.
C3_Witness ==
    /\ pc = "gencase"
    /\ \E i \in 1..Len(chains) :
          LET c == chains[i]
          IN  /\ Len(c) >= 3 /\ InIdx(Last(c))
              /\ Eq(decay_const(Last(c)), Zero)
              /\ ~k_a(c).none
              /\ ~Eq(gamma_of(c), One)
              /\ Len(k_a(c).k) < Len(c)

\* C4: for every chain of two or more nuclides that gencase is given and
\* that k_a solves, as many amplitudes as rates are returned, and at least
\* two; when the relative half-life threshold would keep fewer than two
\* terms, all len(chain) terms are returned.  A chain of one nuclide always
\* yields its single term.
C4_PruningFloor ==
    pc = "gencase" =>
    \A c \in Range(chains) :
        IF Len(c) = 1
        THEN ~chainexpr(c).none /\ Len(chainexpr(c).terms) = 1
        ELSE ~k_a(c).none
             => /\ Len(k_a(c).k) = Len(k_a(c).a)
                /\ Len(k_a(c).k) >= 2
                /\ Cardinality(ThresholdKeeps(c)) < 2
                      => Len(k_a(c).k) = Len(c)

\* C4 witness: gencase is about to emit a chain that the threshold alone
\* would have cut to a single term and that keeps all its terms, and
\* another chain that pruning did shorten.
C4_Witness ==
    /\ pc = "gencase"
    /\ \E i, j \in 1..Len(chains) :
          /\ Len(chains[i]) >= 2 /\ ~k_a(chains[i]).none
          /\ Cardinality(ThresholdKeeps(chains[i])) < 2
          /\ Len(k_a(chains[i]).k) = Len(chains[i])
          /\ Len(chains[j]) >= 3 /\ ~k_a(chains[j]).none
          /\ Len(k_a(chains[j]).k) = 2

\* C9: every chain genchains places in its list holds no nuclide twice.
C9_NoRepeatInChains == \A i \in 1..Len(chains) : NoRepeat(chains[i])

\* C10: on an acyclic filtered graph genchains([(seed,)]) never reaches the
\* recursion limit, its list starts with (seed,) and holds only paths from
\* the seed, none of them twice, in at most as many frames as there are
\* nuclides; when it returns, the list holds exactly the paths from the seed.
C10_ExactPaths ==
    (Acyclic /\ pc \in {"genchains", "gencase", "RecursionError"})
    => /\ pc # "RecursionError"
       /\ chains[1] = <<nucs[gi]>>
       /\ \A i \in 1..Len(chains) : chains[i] \in PathsFrom(nucs[gi])
       /\ \A i, j \in 1..Len(chains) : i # j => chains[i] # chains[j]
       /\ Len(stack) <= Cardinality(Nuclides)
       /\ pc = "gencase" => Range(chains) = PathsFrom(nucs[gi])

\* C10 witness: genchains has returned on an acyclic graph in which two
\* different paths from the seed converge on the same nuclide.
C10_Witness ==
    /\ Acyclic
    /\ pc = "gencase"
    /\ \E i, j \in 1..Len(chains) :
          /\ i # j
          /\ Len(chains[i]) >= 3 /\ Len(chains[j]) >= 3
          /\ Last(chains[i]) = Last(chains[j])

Unpruned(n) ==
    \A c \in PathsFrom(n) :
        (Len(c) >= 2 /\ Emitted(c)) => Len(k_a(c).k) = Len(c)

C5_CaseStatements ==
    \A n \in JustDone :
        IF Eq(decay_const(n), Zero)
        THEN Body(n) = <<CHAIN_STMT(idx(n), ItSecond)>>
        ELSE /\ \A i \in 1..Len(Body(n)) :
                   /\ Body(n)[i].line = "CHAIN_STMT"
                   /\ Body(n)[i].op = "+="
                   /\ Body(n)[i].expr.tmpl = "CHAIN_EXPR"
             /\ \A st \in Range(Body(n))
                          \cup {StmtOf(c) : c \in {d \in PathsFrom(n) : Emitted(d)}} :
                   Count(Body(n), st) =
                   Cardinality({c \in PathsFrom(n) : Emitted(c) /\ StmtOf(c) = st})

\* C5 witness: a finished case in which two chains accumulate into the same
\* slot and a chain with an untracked terminal nuclide emitted nothing.
C5_Witness ==
    \E n \in Done :
        /\ \E i, j \in 1..Len(Body(n)) :
              i # j /\ Body(n)[i].slot = Body(n)[j].slot
        /\ \E c \in PathsFrom(n) : ~InIdx(Last(c))

\* C6: every nuclide of the input composition that is not tracked is in the
\* returned composition with exactly its input abundance.
C6_UntrackedPassThrough ==
    pc = "returned" =>
    \A n \in DOMAIN comp :
        ~InIdx(n) =>
        {e \in outcomp : e[1] = n} = {<<n, Plain(comp[n])>>}

\* C6 witness: a call returned with an untracked nuclide of an element that
\* has no unit, an untracked nuclide of an element that has one, and a
\* tracked slot copied into the result.
C6_Witness ==
    /\ pc = "returned"
    /\ \E n, m \in DOMAIN comp :
          /\ ~InIdx(n) /\ znum(n) \notin Range(elems(nucs))
          /\ ~InIdx(m) /\ znum(m) \in Range(elems(nucs))
    /\ \E e \in outcomp : InIdx(e[1]) /\ e[2].acc # <<>>

\* C7: the wrapped branch_ratio returns the table's value for every pair of
\* the override table and the provider's answer for every other pair, the
\* wrapped decay_children likewise for every parent, and the two tables
\* keep the contents they were defined with.
C7_OverridePrecedence ==
    /\ br_special_cases = BranchRatioSpecialCases
    /\ dc_special_cases = DecayChildrenSpecialCases
    /\ \A e \in BranchRatioTable : branch_ratio(e[1], e[2]) = e[3]
    /\ \A e \in DecayChildrenTable : decay_children(e[1]) = e[2]
    /\ \A x, y \in Nuclides :
          (\A e \in BranchRatioTable : <<e[1], e[2]>> # <<x, y>>)
          => branch_ratio(x, y) = data_br[<<x, y>>]
    /\ \A x \in Nuclides :
          (\A e \in DecayChildrenTable : e[1] # x)
          => decay_children(x) = data_children[x]

\* C7 witness: gencase has enumerated and solved the chains of Te-127 while
\* the provider names another child and another branch ratio for it.
C7_Witness ==
    /\ pc = "gencase"
    /\ nucs[gi] = Te127
    /\ data_children[Te127] # {I127}
    /\ data_br[<<Te127, I127>>] # One
    /\ chains = << <<Te127>>, <<Te127, I127>> >>
    /\ ~k_a(<<Te127, I127>>).none
    /\ k_a(<<Te127, I127>>).k = <<MinusOne, One>>

HasNaN(chain) == \E i \in 1..Len(chain) : IsNaN(decay_const(chain[i]))

\* C8: the case gencase returns holds no statement for a chain, of any
\* length, that holds a nuclide with undefined decay data.
C8_UndefinedDataDropped ==
    \A n \in JustDone :
        ~Eq(decay_const(n), Zero) =>
        \A c \in PathsFrom(n) :
            (HasNaN(c) /\ InIdx(Last(c))) => StmtOf(c) \notin Range(Body(n))

====
